---- MODULE Spec2Model ----
(***************************************************************************)
(* A model of pulsar's actor mailbox (pulsar/async/mailbox.py) and of the  *)
(* non-blocking stream transport underneath it (pulsar/async/stream.py).   *)
(*                                                                         *)
(* The module holds several specifications over one set of variables:      *)
(*   SpecMailbox  the arbiter's MailboxProtocol instances, one per actor   *)
(*                connection, with their correlation tables and the relay; *)
(*   SpecWrite    the write side of one SocketStreamTransport;             *)
(*   SpecRead     the read side of one SocketStreamTransport;              *)
(*   SpecDial     create_connection over its candidate addresses.          *)
(* Each specification leaves the variables of the others unchanged.        *)
(***************************************************************************)
EXTENDS Integers, Sequences, FiniteSets, TLC

\* ------------------------------------------------------------------ bounds
\* gen_unique_id() returns an id; the ack keeps its leading part.  An id is
\* modelled as <<head, tail>>: head stands for the characters the slice
\* [:8] keeps (one of NumHeads values), tail for the characters it drops.
NumHeads == 2
\* Messages built in one run: the requests issued by the arbiter's protocols
\* (direct and relayed) plus the command envelopes sent by the remote actors.
MaxMsgs == 2
\* The chunk size write() splits at (WRITE_BUFFER_MAX_SIZE of .internet,
\* scaled down), the bytes written in one run, and the sends that succeed in
\* one call of _ready_write.
WRITE_BUFFER_MAX_SIZE == 2
MaxBytes == 4
MaxSends == 2
\* The non-empty chunks sock.recv returns in one run, and in one call of
\* _read_ready.
MaxChunks == 3
MaxRecvs == 2
\* The addresses getaddrinfo returns for the destination and for local_addr.
MaxCands == 2
MaxLaddrs == 2
\* The request() calls made on one MailboxClient.
MaxCalls == 3
\* The addresses getaddrinfo returns to start_serving.
MaxInfos == 3
\* The accepts tried on one readability event of a listening socket
\* (NUMBER_ACCEPTS of .consts, scaled down), the connections that arrive in
\* one run, and the requests sent on the accepted ones.
NUMBER_ACCEPTS == 2
MaxAccepted == 3
MaxAccReqs == 2

VARIABLES
    \* ---- mailbox
    pending,    \* pending[c]: MailboxProtocol._pending_responses of connection c
    reqs,       \* every Message built by Message.command on the arbiter, in order
    fut,        \* fut[r]: the Deferred of request r (req.future)
    out,        \* out[c]: the envelopes written to the transport of c, in order
    answered,   \* answered[c]: positions of out[c] the remote actor has answered
    inb,        \* inb[c]: envelopes from the remote actor not yet dispatched
    relays,     \* the suspended _on_message coroutines that relay a command
    lost,       \* lost[c]: connection_lost has fired for c
    abandoned,  \* abandoned[c]: requests pending in the table of c when it was lost
    peerCmds,   \* number of frames the remote actors have sent on their own
    dispatches, \* every frame data_received has taken up, in order, and how it went
    \* ---- transport, write side
    write_buffer,    \* SocketStreamTransport._write_buffer, a deque of chunks
    paused_writing,  \* SocketStreamTransport._paused_writing
    writer,          \* the writability callback registered for the socket
    closed,          \* the transport was aborted
    wire,            \* the bytes sock.send has accepted, in order
    submitted,       \* the bytes handed to write(), in order
    held,            \* the bytes handed to write() since the last pause_writing
    lastWrite,       \* the data of the last write() and the chunks it enqueued
    \* ---- transport, read side
    read_buffer,     \* SocketStreamTransport._read_buffer
    paused_reading,  \* SocketStreamTransport._paused_reading
    delivered,       \* the chunks passed to protocol.data_received, in order
    arrived,         \* the non-empty chunks sock.recv has returned, in order
    rstate,          \* "open", "closed" (close()) or "aborted" (abort(exc))
    eofs,            \* calls of protocol.eof_received
    resumeRaised,    \* the last resume() raised an exception
    lastRead,        \* what the last call of _read_ready did
    \* ---- create_connection
    dial,            \* the coroutine's locals and how it ended
    \* ---- MailboxClient
    client,          \* a MailboxClient: address, _connection, request() calls
    \* ---- start_serving
    serve,           \* start_serving: its arguments, its sockets and how it ended
    \* ---- sock_accept_connection
    acc,             \* the accepted connections, the protocol instances and their tables
    \* ---- sock_connect
    socks            \* socks[s]: the dial of socket s, its future and its writer

mboxVars == <<pending, reqs, fut, out, answered, inb, relays, lost,
              abandoned, peerCmds, dispatches>>

writeVars == <<write_buffer, paused_writing, writer, closed, wire, submitted,
               held, lastWrite>>

readVars == <<read_buffer, paused_reading, delivered, arrived, rstate, eofs,
              resumeRaised, lastRead>>

dialVars == <<dial>>

clientVars == <<client>>

serveVars == <<serve>>

acceptVars == <<acc>>

connectVars == <<socks>>

vars ==
    <<mboxVars, writeVars, readVars, dialVars, clientVars, serveVars, acceptVars,
      connectVars>>

\* What the actions of one part of the model leave alone.
notMbox ==
    <<writeVars, readVars, dialVars, clientVars, serveVars, acceptVars,
      connectVars>>
notWrite ==
    <<mboxVars, readVars, dialVars, clientVars, serveVars, acceptVars,
      connectVars>>
notRead ==
    <<mboxVars, writeVars, dialVars, clientVars, serveVars, acceptVars,
      connectVars>>
notDial ==
    <<mboxVars, writeVars, readVars, clientVars, serveVars, acceptVars,
      connectVars>>
notClient ==
    <<mboxVars, writeVars, readVars, dialVars, serveVars, acceptVars,
      connectVars>>
notServe ==
    <<mboxVars, writeVars, readVars, dialVars, clientVars, acceptVars,
      connectVars>>
notAccept ==
    <<mboxVars, writeVars, readVars, dialVars, clientVars, serveVars,
      connectVars>>
notConnect ==
    <<mboxVars, writeVars, readVars, dialVars, clientVars, serveVars,
      acceptVars>>

\* No writability callback is registered (remove_writer).
NoWriter == "none"
\* _read_ready has not been called, or has made no call yet: the sock.recv
\* calls made, what the first one and the last one returned ("chunk",
\* "empty", "wouldblock", "error"; `raised`: data_received raised on the last
\* chunk), and the calls of eof_received, close and abort.
NoRead ==
    [recvs |-> 0, first |-> "none", last |-> "none", raised |-> FALSE,
     eofCalls |-> 0, eofRaised |-> FALSE, closes |-> 0, aborts |-> 0]

\* create_connection before it is called.
DialIdle ==
    [state |-> "idle", cands |-> 0, laddrs |-> 0, local |-> FALSE, idx |-> 0,
     exceptions |-> <<>>, raised |-> [what |-> "none"]]

\* MailboxClient.__init__: no connection (0 stands for None), no call made,
\* create_connection never performed.
ClientIdle ==
    [address |-> "tuple", connection |-> 0, calls |-> <<>>, dials |-> 0]

\* start_serving before it is called.
ServeIdle ==
    [state |-> "idle", infos |-> <<>>, reuse |-> FALSE, sockets |-> <<>>,
     error |-> "none"]

\* A listening socket before any connection is accepted.  conns[k] is the
\* k-th transport made, with the protocol instance it is wired to;
\* tables[p] is _pending_responses of protocol instance p; live[k] are the
\* tokens registered on connection k and not yet resolved; resolved are the
\* requests whose callback has arrived.
\* The sockets dialled in one run.
NumSocks == 3
Socks == 1..NumSocks
\* A socket sock_connect has not been called with: what sock.connect gave
\* ("ok", "wouldblock", "error"), whether sock_connect is registered as its
\* writer, whether the event loop has the writer's call due, the future
\* ("none", "pending", "success", "failure", "cancelled"), the calls of
\* future.callback, whether the writability callback has run, and the
\* SO_ERROR it read ("zero", "nonzero").
SockIdle ==
    [first |-> "none", writer |-> FALSE, scheduled |-> FALSE,
     future |-> "none", completions |-> 0, ran |-> FALSE, err |-> "none"]
SocksIdle == [s \in Socks |-> SockIdle]

\* One call of sock_accept_connection: what each sock.accept() call gave
\* ("conn", "wouldblock", "eperm", "transient", "other"), the transports
\* made, the lines logged, and whether an exception left the call.
NoBatch == [outcomes |-> <<>>, transports |-> 0, logged |-> <<>>, raised |-> FALSE]
AcceptIdle ==
    [conns |-> <<>>, tables |-> <<>>, live |-> <<>>, protocols |-> 0,
     reqs |-> 0, resolved |-> {}, batch |-> NoBatch, listening |-> TRUE]

\* ---------------------------------------------------------------- mailbox

\* The connections the arbiter holds, named by the actor at the other end.
Conns == {"A", "B"}
Arbiter == "arbiter"
UnknownActor == "zzz"

Heads == 1..NumHeads

\* gen_unique_id(): the ids the n-th call may return.  The tail is the serial
\* number of the call, so no id is returned twice; the head is any value.
GenUniqueId(n) == {<<h, n>> : h \in Heads}

\* gen_unique_id()[:8]
Truncate(id) == SubSeq(id, 1, 1)

\* message.get('ack') of an envelope without ack; `not ack` holds of it.
NoAck == <<>>
\* The acks the remote actors put in their own command envelopes.
PeerTokens == {<<1>>}

\* The command registry: "ping" requires acknowledgment, "notify" does not.
Commands == {"ping", "notify"}
CommandAck(command) == command = "ping"

NoResult == [kind |-> "none", of |-> 0]
Failure == [kind |-> "failure", of |-> 0]
\* The result the target's handler computes for request r (0: a command the
\* arbiter executed itself).
ValueOf(r) == [kind |-> "value", of |-> r]

\* Message.command: the envelope and whether a future is created.
MessageCommand(command, sender, target, id) ==
    [data |-> [command |-> command, sender |-> sender, target |-> target,
               ack |-> IF CommandAck(command) THEN Truncate(id) ELSE NoAck,
               result |-> NoResult],
     future |-> CommandAck(command)]

\* Message.callback
MessageCallback(result, ack) ==
    [command |-> "callback", sender |-> "", target |-> "", ack |-> ack,
     result |-> result]

Put(table, key, r) ==
    [k \in DOMAIN table \cup {key} |-> IF k = key THEN r ELSE table[k]]
Pop(table, key) == [k \in DOMAIN table \ {key} |-> table[k]]

\* MailboxProtocol._write: transport.write raises IOError ("ioerror"), another
\* exception ("error") or accepts the frame ("ok"); an IOError is re-raised
\* only while the actor is running (get_actor().is_running(), read at the
\* call: an input of the step).
WriteOutcomes == {"ok", "ioerror", "error"}
WriteRaises(w, isRunning) == w = "error" \/ (w = "ioerror" /\ isRunning)

StartTableAlways(table, msg, r) == Put(table, msg.data.ack, r)
\* MailboxProtocol._start, the correlation table after it.
StartTable(table, msg, r) ==
    IF msg.future /\ msg.data.ack # NoAck
    THEN Put(table, msg.data.ack, r)
    ELSE table

\* MailboxProtocol._start, the request's future after it.
StartFuture(msg, w, isRunning) ==
    IF msg.future /\ msg.data.ack # NoAck
    THEN IF WriteRaises(w, isRunning)
         THEN [st |-> "called", by |-> "writefail", val |-> Failure, ack |-> NoAck]
         ELSE [st |-> "pending", by |-> "none", val |-> NoResult, ack |-> NoAck]
    ELSE [st |-> "none", by |-> "none", val |-> NoResult, ack |-> NoAck]

\* Whether _start lets the exception of _write out to its caller.
StartRaises(msg, w, isRunning) ==
    ~(msg.future /\ msg.data.ack # NoAck) /\ WriteRaises(w, isRunning)

\* An envelope as it travels, with the request or relay it belongs to.
Tagged(env, tag) ==
    [command |-> env.command, sender |-> env.sender, target |-> env.target,
     ack |-> env.ack, result |-> env.result, tag |-> tag]

\* MailboxProtocol.request (Message.command, then _start) on connection c;
\* relay is the relaying coroutine that issued it, 0 for a direct request.
Issue(c, command, sender, target, id, w, isRunning, relay) ==
    LET msg == MessageCommand(command, sender, target, id)
        r == Len(reqs) + 1
    IN  /\ Len(reqs) + peerCmds < MaxMsgs
        /\ lost[c] => w # "ok"
        /\ reqs' = Append(reqs, [conn |-> c, ack |-> msg.data.ack,
                                 acked |-> msg.future, wrote |-> w = "ok",
                                 relay |-> relay,
                                 raised |-> StartRaises(msg, w, isRunning)])
        /\ pending' = [pending EXCEPT ![c] = StartTable(@, msg, r)]
        /\ fut' = Append(fut, StartFuture(msg, w, isRunning))
        /\ out' = IF w = "ok"
                  THEN [out EXCEPT ![c] = Append(@, Tagged(msg.data, r))]
                  ELSE out

\* The arbiter sends a command to the actor of connection c.
Request(c) ==
    \E command \in Commands, id \in GenUniqueId(Len(reqs) + 1),
       w \in WriteOutcomes, isRunning \in BOOLEAN :
        /\ Issue(c, command, Arbiter, c, id, w, isRunning, 0)
        /\ UNCHANGED <<answered, inb, relays, lost, abandoned, peerCmds,
                       dispatches>>
        /\ UNCHANGED notMbox

\* The frames of connection c data_received has taken up.
Dispatched(c) == {i \in DOMAIN dispatches : dispatches[i].conn = c}

\* A frame arriving on connection c, numbered in the order of arrival.
Arriving(c, env) ==
    [command |-> env.command, sender |-> env.sender, target |-> env.target,
     ack |-> env.ack, result |-> env.result, tag |-> env.tag,
     seq |-> Cardinality(Dispatched(c)) + Len(inb[c]) + 1]

\* The remote actor of c answers the i-th envelope written to it, an acked
\* command, with a callback envelope carrying that command's result and ack.
PeerReply(c) ==
    \E i \in 1..Len(out[c]) :
        /\ ~lost[c]
        /\ i \notin answered[c]
        /\ out[c][i].command # "callback"
        /\ out[c][i].ack # NoAck
        /\ answered' = [answered EXCEPT ![c] = @ \cup {i}]
        /\ inb' = [inb EXCEPT ![c] =
                     Append(@, Arriving(c, Tagged(
                                   MessageCallback(ValueOf(out[c][i].tag),
                                                   out[c][i].ack),
                                   out[c][i].tag)))]
        /\ UNCHANGED <<pending, reqs, fut, out, relays, lost,
                       abandoned, peerCmds, dispatches>>
        /\ UNCHANGED notMbox

\* The remote actor of c sends a command envelope through the arbiter.
PeerSend(c) ==
    \E command \in Commands, sender \in {c, UnknownActor},
       target \in (Conns \ {c}) \cup {Arbiter, UnknownActor}, t \in PeerTokens :
        \* the dispatch reads the sender only when the target is a proxy
        /\ sender = UnknownActor => target \in Conns
        /\ ~lost[c]
        /\ Len(reqs) + peerCmds < MaxMsgs
        /\ peerCmds' = peerCmds + 1
        /\ inb' = [inb EXCEPT ![c] =
                     Append(@, Arriving(c, Tagged(
                                   [command |-> command, sender |-> sender,
                                    target |-> target,
                                    ack |-> IF CommandAck(command) THEN t ELSE NoAck,
                                    result |-> NoResult], 0)))]
        /\ UNCHANGED <<pending, reqs, fut, out, answered, relays, lost,
                       abandoned, dispatches>>
        /\ UNCHANGED notMbox

\* A token no request of the arbiter was given.
StrayAck == <<0>>

\* The envelopes a remote actor can make up itself: a callback nobody asked
\* for, with a token or without, and a frame whose body does not unpickle.
Strays ==
    {[command |-> "callback", sender |-> "", target |-> "", ack |-> a,
      result |-> ValueOf(0)] : a \in {StrayAck, NoAck}}
    \cup {[command |-> "undecodable", sender |-> "", target |-> "",
           ack |-> NoAck, result |-> NoResult]}

\* The remote actor of c sends such a frame.
PeerStray(c) ==
    \E env \in Strays :
        /\ ~lost[c]
        /\ Len(reqs) + peerCmds < MaxMsgs
        /\ peerCmds' = peerCmds + 1
        /\ inb' = [inb EXCEPT ![c] = Append(@, Arriving(c, Tagged(env, 0)))]
        /\ UNCHANGED <<pending, reqs, fut, out, answered, relays, lost,
                       abandoned, dispatches>>
        /\ UNCHANGED notMbox

\* actor.get_actor(name) in the arbiter: itself, a proxy of a remote actor,
\* or None.
GetActor(name) ==
    IF name = Arbiter THEN "local"
    ELSE IF name \in Conns THEN "proxy" ELSE "none"

\* Deferred.callback(result) on the future of request r, by a callback
\* envelope with the given ack; a Deferred is called once.
Resolve(f, result, ack) ==
    IF f.st = "pending"
    THEN [st |-> "called", by |-> "callback", val |-> result, ack |-> ack]
    ELSE f

LostResolvesPending(futs, table) ==
    [r \in DOMAIN futs |->
        IF \E k \in DOMAIN table : table[k] = r
        THEN Resolve(futs[r], Failure, NoAck) ELSE futs[r]]
\* MailboxProtocol._connection_lost: the futures after it (it logs or mutes
\* the failure and returns it).
ConnectionLostFutures(futs, table) == futs

\* The transport of connection c is closed or aborted and the protocol's
\* connection_lost hook runs: no frame is taken up on c any more.
Abort(c) ==
    /\ lost' = [lost EXCEPT ![c] = TRUE]
    /\ fut' = ConnectionLostFutures(fut, pending[c])
    /\ abandoned' = [abandoned EXCEPT ![c] =
                       {r \in DOMAIN fut :
                           /\ fut[r].st = "pending"
                           /\ \E k \in DOMAIN pending[c] : pending[c][k] = r}]
    /\ inb' = [inb EXCEPT ![c] = <<>>]

\* The dispatch of the head of inb[c] is over and the connection lives on.
Next1(c) ==
    /\ inb' = [inb EXCEPT ![c] = Tail(@)]
    /\ UNCHANGED <<lost, abandoned>>

\* The record of one dispatch: the frame (tag: the request it answers, 0 if
\* it answers none), the exception _on_message raised
\* ("none" if it did not), whether the command's result was a failure, the
\* position in out[c] of the callback sent at once (0: none), the relay
\* started (0: none), whether the command's handler was called, and what
\* became of the connection.
Dispatch(c, msg, raised, failed, pos, relay, executed, crashed) ==
    [conn |-> c, seq |-> msg.seq, command |-> msg.command, ack |-> msg.ack,
     target |-> msg.target, sender |-> msg.sender, tag |-> msg.tag,
     raised |-> raised, failed |-> failed, pos |-> pos, relay |-> relay,
     executed |-> executed, crashed |-> crashed, behind |-> Len(inb[c]) - 1]

\* The exception the callback branch raises for msg.
CallbackRaises(table, msg) ==
    IF msg.ack = NoAck THEN "ProtocolError"
    ELSE IF msg.ack \notin DOMAIN table THEN "KeyError"
    ELSE "none"

\* _on_message, callback branch.  An exception it raises leaves _on_message,
\* which in_loop runs: it ends the dispatch of the connection's frames
\* (crashed) or stays in the coroutine's result.
OnCallback(c, msg) ==
    LET raised == CallbackRaises(pending[c], msg)
    IN  /\ UNCHANGED <<reqs, out, relays>>
        /\ IF raised = "none"
           THEN /\ pending' = [pending EXCEPT ![c] = Pop(@, msg.ack)]
                /\ fut' = [fut EXCEPT ![pending[c][msg.ack]] =
                             Resolve(@, msg.result, msg.ack)]
                /\ Next1(c)
                /\ dispatches' = Append(dispatches,
                       Dispatch(c, msg, raised, FALSE, 0, 0, FALSE, FALSE))
           ELSE /\ UNCHANGED pending
                /\ \E crashed \in BOOLEAN :
                     /\ IF crashed THEN Abort(c)
                        ELSE Next1(c) /\ UNCHANGED fut
                     /\ dispatches' = Append(dispatches,
                            Dispatch(c, msg, raised, FALSE, 0, 0, FALSE, crashed))

RelayedAck(msg, relayedAck) == relayedAck
\* The ack of the callback envelope that answers an incoming command.
CallbackAck(msg, relayedAck) == msg.ack

\* self.start(Message.callback(result, ack)) on connection c.
SendCallback(c, result, ack, relay) ==
    [out EXCEPT ![c] = Append(@, Tagged(MessageCallback(result, ack), relay))]

\* The command's error leaves _on_message instead of becoming its result.
OnCommandUncaught(c, msg) ==
    /\ GetActor(msg.target) # "local"
    /\ UNCHANGED <<pending, reqs, fut, out, relays>>
    /\ Next1(c)
    /\ dispatches' = Append(dispatches,
           Dispatch(c, msg, "CommandError", TRUE, 0, 0, FALSE, FALSE))

\* _on_message, command branch, the target is the arbiter itself or cannot
\* be resolved, or the sender of a relayed command cannot be resolved.
OnCommandLocal(c, msg) ==
    \E raises \in BOOLEAN :
        /\ \/ GetActor(msg.target) = "none" /\ raises
           \/ GetActor(msg.target) = "proxy" /\ GetActor(msg.sender) = "none"
              /\ raises
           \/ GetActor(msg.target) = "local"
        /\ out' = IF msg.ack # NoAck
                  THEN SendCallback(c, IF raises THEN Failure ELSE ValueOf(0),
                                    CallbackAck(msg, NoAck), 0)
                  ELSE out
        /\ UNCHANGED <<pending, reqs, fut, relays>>
        /\ Next1(c)
        /\ dispatches' = Append(dispatches,
               Dispatch(c, msg, "none", raises,
                        IF msg.ack # NoAck THEN Len(out[c]) + 1 ELSE 0, 0,
                        GetActor(msg.target) = "local", FALSE))

RelayableAnySender(msg) == GetActor(msg.target) = "proxy"
\* The target is a proxy and the caller is known: the command is routed.
Relayable(msg) ==
    GetActor(msg.target) = "proxy" /\ GetActor(msg.sender) # "none"

\* _on_message, command branch, the target is a proxy: actor.send re-issues
\* the command on the target's connection and the coroutine suspends on it.
OnCommandRelay(c, msg) ==
    \E id \in GenUniqueId(Len(reqs) + 1), w \in WriteOutcomes,
       isRunning \in BOOLEAN :
        /\ Relayable(msg)
        /\ Issue(msg.target, msg.command, Arbiter, msg.target, id, w, isRunning,
                 Len(relays) + 1)
        /\ relays' = Append(relays,
                            [from |-> c, ack |-> msg.ack, req |-> Len(reqs) + 1,
                             st |-> IF msg.ack # NoAck THEN "waiting" ELSE "done"])
        /\ Next1(c)
        /\ dispatches' = Append(dispatches,
               Dispatch(c, msg, "none", reqs'[Len(reqs) + 1].raised, 0,
                        Len(relays) + 1, FALSE, FALSE))

\* The frame is skipped and the next one is taken up.
SkipUndecodable(c, msg) ==
    /\ Next1(c)
    /\ dispatches' = Append(dispatches,
           Dispatch(c, msg, "ProtocolError", FALSE, 0, 0, FALSE, FALSE))
    /\ UNCHANGED <<pending, reqs, fut, out, relays>>

\* data_received: pickle.loads fails on the frame's body.  ProtocolError
\* leaves data_received; _read_ready, which called it, aborts the transport.
OnUndecodable(c, msg) ==
    /\ Abort(c)
    /\ dispatches' = Append(dispatches,
           Dispatch(c, msg, "ProtocolError", FALSE, 0, 0, FALSE, TRUE))
    /\ UNCHANGED <<pending, reqs, out, relays>>

\* data_received on connection c takes up the next frame: unpickles it and
\* dispatches the envelope (_on_message).
OnMessage(c) ==
    /\ ~lost[c]
    /\ inb[c] # <<>>
    /\ LET msg == Head(inb[c])
       IN  \/ msg.command = "undecodable" /\ OnUndecodable(c, msg)
           \/ msg.command = "callback" /\ OnCallback(c, msg)
           \/ /\ msg.command \notin {"callback", "undecodable"}
              /\ OnCommandLocal(c, msg)
           \/ /\ msg.command \notin {"callback", "undecodable"}
              /\ OnCommandRelay(c, msg)
    /\ UNCHANGED <<answered, peerCmds>>
    /\ UNCHANGED notMbox

\* The relaying coroutine resumes once the relayed request's future is called
\* and answers the original sender.
RelayComplete(k) ==
    /\ relays[k].st = "waiting"
    /\ fut[relays[k].req].st = "called"
    /\ IF lost[relays[k].from]
       THEN /\ relays' = [relays EXCEPT ![k].st = "dropped"]
            /\ out' = out
       ELSE /\ relays' = [relays EXCEPT ![k].st = "done"]
            /\ out' = SendCallback(relays[k].from, fut[relays[k].req].val,
                                   CallbackAck(relays[k], reqs[relays[k].req].ack),
                                   k)
    /\ UNCHANGED <<pending, reqs, fut, answered, inb, lost, abandoned,
                   peerCmds, dispatches>>
    /\ UNCHANGED notMbox

\* The transport of connection c closes.
ConnectionLost(c) ==
    /\ ~lost[c]
    /\ Abort(c)
    /\ UNCHANGED <<pending, reqs, out, answered, relays, peerCmds, dispatches>>
    /\ UNCHANGED notMbox

InitMailbox ==
    /\ pending = [c \in Conns |-> <<>>]
    /\ reqs = <<>>
    /\ fut = <<>>
    /\ out = [c \in Conns |-> <<>>]
    /\ answered = [c \in Conns |-> {}]
    /\ inb = [c \in Conns |-> <<>>]
    /\ relays = <<>>
    /\ lost = [c \in Conns |-> FALSE]
    /\ abandoned = [c \in Conns |-> {}]
    /\ peerCmds = 0
    /\ dispatches = <<>>
    /\ write_buffer = <<>> /\ paused_writing = FALSE /\ writer = NoWriter
    /\ closed = FALSE /\ wire = <<>> /\ submitted = <<>> /\ held = <<>>
    /\ lastWrite = [data |-> <<>>, enq |-> <<>>]
    /\ read_buffer = <<>> /\ paused_reading = FALSE /\ delivered = <<>>
    /\ arrived = <<>> /\ rstate = "open" /\ eofs = 0 /\ resumeRaised = FALSE /\ lastRead = NoRead
    /\ dial = DialIdle
    /\ client = ClientIdle
    /\ serve = ServeIdle
    /\ acc = AcceptIdle
    /\ socks = SocksIdle

NextMailbox ==
    \/ \E c \in Conns : Request(c)
    \/ \E c \in Conns : PeerReply(c)
    \/ \E c \in Conns : PeerSend(c)
    \/ \E c \in Conns : PeerStray(c)
    \/ \E c \in Conns : OnMessage(c)
    \/ \E k \in 1..Len(relays) : RelayComplete(k)
    \/ \E c \in Conns : ConnectionLost(c)

SpecMailbox == InitMailbox /\ [][NextMailbox]_vars

\* ------------------------------------------------- transport, write side

Min(a, b) == IF a < b THEN a ELSE b

RECURSIVE Flatten(_)
\* The bytes of a deque of chunks, in order.
Flatten(chunks) ==
    IF chunks = <<>> THEN <<>> ELSE Head(chunks) \o Flatten(Tail(chunks))

IsPrefix(a, b) == Len(a) <= Len(b) /\ SubSeq(b, 1, Len(a)) = a

\* data[i:j] of Python, i and j counted from 0.
Slice(data, i, j) == SubSeq(data, i + 1, Min(j, Len(data)))

ChunksOverlap(data) ==
    IF Len(data) > WRITE_BUFFER_MAX_SIZE
    THEN [k \in 1..((Len(data) + WRITE_BUFFER_MAX_SIZE - 1) \div WRITE_BUFFER_MAX_SIZE) |->
            Slice(data, (k - 1) * WRITE_BUFFER_MAX_SIZE,
                  (k - 1) * WRITE_BUFFER_MAX_SIZE + WRITE_BUFFER_MAX_SIZE + 1)]
    ELSE <<data>>
\* write(): the chunks appended to _write_buffer for data, one slice
\* data[i:i+WRITE_BUFFER_MAX_SIZE] for each i of range(0, len(data),
\* WRITE_BUFFER_MAX_SIZE) when data is longer than WRITE_BUFFER_MAX_SIZE.
Chunks(data) ==
    IF Len(data) > WRITE_BUFFER_MAX_SIZE
    THEN [k \in 1..((Len(data) + WRITE_BUFFER_MAX_SIZE - 1) \div WRITE_BUFFER_MAX_SIZE) |->
            Slice(data, (k - 1) * WRITE_BUFFER_MAX_SIZE,
                  (k - 1) * WRITE_BUFFER_MAX_SIZE + WRITE_BUFFER_MAX_SIZE)]
    ELSE <<data>>

RECURSIVE TakePrefix(_, _, _)
\* merge_prefix's loop: pops chunks until size bytes are taken, pushing back
\* the rest of a chunk it had to split.
TakePrefix(deque, remaining, prefix) ==
    IF deque = <<>> \/ remaining <= 0
    THEN [prefix |-> prefix, deque |-> deque]
    ELSE LET chunk == Head(deque)
         IN  IF Len(chunk) > remaining
             THEN TakePrefix(<<SubSeq(chunk, remaining + 1, Len(chunk))>> \o Tail(deque),
                             0, prefix \o SubSeq(chunk, 1, remaining))
             ELSE TakePrefix(Tail(deque), remaining - Len(chunk), prefix \o chunk)

\* merge_prefix(deque, size): the first entries of the deque are replaced by
\* a single chunk of up to size bytes.
MergePrefix(deque, size) ==
    IF Len(deque) = 1 /\ Len(deque[1]) <= size
    THEN deque
    ELSE LET t == TakePrefix(deque, size, <<>>)
             merged == IF t.prefix # <<>> THEN <<t.prefix>> \o t.deque ELSE t.deque
         IN  IF merged = <<>> THEN << <<>> >> ELSE merged

PopWholeChunk(buffer, sent) == Tail(buffer)
\* _ready_write: the buffer after sock.send accepted `sent` bytes of its head
\* (merge_prefix, then popleft).
SendStep(buffer, sent) == Tail(MergePrefix(buffer, sent))

RECURSIVE ReadyWriteLoop(_, _, _)
\* _ready_write's loop: every way it can end.  Each sock.send(buffer[0])
\* accepts 1..len(buffer[0]) bytes and the loop goes on, or returns 0 or
\* raises a TRY_WRITE_AGAIN error and the loop breaks, or raises another
\* error; at most `sends` sends succeed.
ReadyWriteLoop(buffer, sentBytes, sends) ==
    IF buffer = <<>>
    THEN {[buffer |-> buffer, sent |-> sentBytes, error |-> FALSE]}
    ELSE {[buffer |-> buffer, sent |-> sentBytes, error |-> e] : e \in BOOLEAN}
         \cup
         (IF sends = 0 THEN {}
          ELSE UNION {ReadyWriteLoop(next[1], next[2], sends - 1) :
                        next \in {<<SendStep(buffer, n),
                                    sentBytes \o SubSeq(Head(buffer), 1, n)>> :
                                  n \in 1..Len(Head(buffer))}})

\* The write side of the transport as one value.
WriteSide ==
    [buffer |-> write_buffer, paused |-> paused_writing, writer |-> writer,
     closed |-> closed, wire |-> wire]

\* SocketTransport.writing: there is data in the write buffer and the
\* transport has a socket.
Writing(t) == ~t.closed /\ t.buffer # <<>>

\* _ready_write on t: what the transport is after each way it can go
\* (abort closes the transport and removes its callbacks).
ReadyWrite(t) ==
    IF t.paused
    THEN {t}
    ELSE {IF o.error
          THEN \* self.abort(exc=e)
               [t EXCEPT !.buffer = o.buffer, !.wire = t.wire \o o.sent,
                         !.closed = TRUE, !.writer = NoWriter]
          ELSE \* if not self.writing: remove_writer
               [t EXCEPT !.buffer = o.buffer, !.wire = t.wire \o o.sent,
                         !.writer = IF o.buffer = <<>> THEN NoWriter ELSE t.writer]
          : o \in ReadyWriteLoop(t.buffer, <<>>, MaxSends)}

WriteDataNoInterest(t, data) ==
    LET queued == [t EXCEPT !.buffer = t.buffer \o Chunks(data)]
    IN  IF ~Writing(t) /\ ~t.paused THEN ReadyWrite(queued) ELSE {queued}
\* write(data) on an open transport, data not empty: what the transport is
\* after each way the immediate send can go.
WriteData(t, data) ==
    LET queued == [t EXCEPT !.buffer = t.buffer \o Chunks(data)]
    IN  IF ~Writing(t) /\ ~t.paused
        THEN {[u EXCEPT !.writer = IF Writing(u) THEN "_ready_write" ELSE u.writer]
              : u \in ReadyWrite(queued)}
        ELSE {queued}

SetWriteSide(t) ==
    /\ write_buffer' = t.buffer
    /\ paused_writing' = t.paused
    /\ writer' = t.writer
    /\ closed' = t.closed
    /\ wire' = t.wire

\* The n bytes the next write() is given: bytes are numbered in the order
\* they are submitted, so that every byte has its own value.
NextData(n) == [i \in 1..n |-> Len(submitted) + i]

\* write(data).  Empty data returns at once; _check_closed raises on a
\* closed transport.
Write ==
    \E n \in 0..(MaxBytes - Len(submitted)) :
        IF n = 0 \/ closed
        THEN /\ lastWrite' = [data |-> <<>>, enq |-> <<>>]
             /\ UNCHANGED <<write_buffer, paused_writing, writer, closed, wire,
                            submitted, held>>
             /\ UNCHANGED notWrite
        ELSE \E u \in WriteData(WriteSide, NextData(n)) :
                /\ SetWriteSide(u)
                /\ submitted' = submitted \o NextData(n)
                /\ held' = IF paused_writing THEN held \o NextData(n) ELSE held
                /\ lastWrite' = [data |-> NextData(n), enq |-> Chunks(NextData(n))]
                /\ UNCHANGED notWrite

\* writelines(list_of_data) with two chunks of data: write() for each.
Writelines ==
    \E n1 \in 1..(MaxBytes - Len(submitted)) :
    \E n2 \in 1..(MaxBytes - Len(submitted) - n1) :
        LET d1 == NextData(n1)
            d2 == [i \in 1..n2 |-> Len(submitted) + n1 + i]
        IN  /\ ~closed
            /\ \E u1 \in WriteData(WriteSide, d1) :
                 \* the second write() raises if the first aborted the transport
                 \E u2 \in (IF u1.closed THEN {u1} ELSE WriteData(u1, d2)) :
                    /\ SetWriteSide(u2)
                    /\ submitted' = IF u1.closed THEN submitted \o d1
                                    ELSE submitted \o d1 \o d2
                    /\ held' = IF paused_writing THEN held \o d1 \o d2 ELSE held
                    /\ lastWrite' = IF u1.closed
                                    THEN [data |-> d1, enq |-> Chunks(d1)]
                                    ELSE [data |-> d2, enq |-> Chunks(d2)]
            /\ UNCHANGED notWrite

\* pause_writing()
PauseWriting ==
    /\ IF ~paused_writing
       THEN /\ paused_writing' = TRUE
            /\ writer' = NoWriter
            /\ held' = <<>>
       ELSE UNCHANGED <<paused_writing, writer, held>>
    /\ UNCHANGED <<write_buffer, closed, wire, submitted, lastWrite>>
    /\ UNCHANGED notWrite

ResumeWritingForgetsWriter ==
    /\ paused_writing' = FALSE
    /\ UNCHANGED <<writer, write_buffer, closed, wire, submitted, held, lastWrite>>
    /\ UNCHANGED notWrite
\* resume_writing()
ResumeWriting ==
    /\ IF paused_writing
       THEN /\ writer' = IF write_buffer # <<>> THEN "_write_ready" ELSE writer
            /\ paused_writing' = FALSE
       ELSE UNCHANGED <<paused_writing, writer>>
    /\ UNCHANGED <<write_buffer, closed, wire, submitted, held, lastWrite>>
    /\ UNCHANGED notWrite

\* self._write_ready, the callback resume_writing registers.  stream.py
\* defines the transport's writability handler under the name _ready_write
\* and no _write_ready; the attribute is taken to be the writability handler
\* of the transport.
WriteReadyAttr(t) == ReadyWrite(t)

\* The event loop finds the socket writable and calls the registered
\* callback.
WriteReady ==
    /\ writer # NoWriter
    /\ ~closed
    /\ \E u \in (IF writer = "_write_ready" THEN WriteReadyAttr(WriteSide)
                 ELSE ReadyWrite(WriteSide)) : SetWriteSide(u)
    /\ UNCHANGED <<submitted, held, lastWrite>>
    /\ UNCHANGED notWrite

InitWrite ==
    /\ pending = [c \in Conns |-> <<>>] /\ reqs = <<>> /\ fut = <<>>
    /\ out = [c \in Conns |-> <<>>] /\ answered = [c \in Conns |-> {}]
    /\ inb = [c \in Conns |-> <<>>] /\ relays = <<>>
    /\ lost = [c \in Conns |-> FALSE] /\ abandoned = [c \in Conns |-> {}]
    /\ peerCmds = 0
    /\ dispatches = <<>>
    /\ write_buffer = <<>>
    /\ paused_writing = FALSE
    /\ writer = NoWriter
    /\ closed = FALSE
    /\ wire = <<>>
    /\ submitted = <<>>
    /\ held = <<>>
    /\ lastWrite = [data |-> <<>>, enq |-> <<>>]
    /\ read_buffer = <<>> /\ paused_reading = FALSE /\ delivered = <<>>
    /\ arrived = <<>> /\ rstate = "open" /\ eofs = 0 /\ resumeRaised = FALSE /\ lastRead = NoRead
    /\ dial = DialIdle
    /\ client = ClientIdle
    /\ serve = ServeIdle
    /\ acc = AcceptIdle
    /\ socks = SocksIdle

NextWrite ==
    \/ Write
    \/ Writelines
    \/ PauseWriting
    \/ ResumeWriting
    \/ WriteReady

SpecWrite == InitWrite /\ [][NextWrite]_vars

\* The socket is writable again and again: whenever the callback stays
\* registered on an open transport with data to send, a call of it in which
\* sock.send accepts at least one byte eventually happens.
SpecWriteFair == SpecWrite /\ WF_vars(WriteReady /\ wire' # wire)


\* -------------------------------------------------- transport, read side

\* The read side of the transport as one value.
ReadSide ==
    [buffer |-> read_buffer, paused |-> paused_reading, delivered |-> delivered,
     arrived |-> arrived, state |-> rstate, eofs |-> eofs, ev |-> lastRead]

\* sock.recv has returned or raised: the call is counted.
Received(t, kind) ==
    [t EXCEPT !.ev.recvs = @ + 1,
              !.ev.first = IF @ = "none" THEN kind ELSE @,
              !.ev.last = kind]

\* self.abort(exc), from the handler of _read_ready's outer try.
AbortRead(t) == [t EXCEPT !.state = "aborted", !.ev.aborts = @ + 1]

EofThenClose(t) ==
    {[t EXCEPT !.eofs = @ + 1, !.ev.eofCalls = @ + 1,
               !.state = "closed", !.ev.closes = @ + 1],
     AbortRead([t EXCEPT !.eofs = @ + 1, !.ev.eofCalls = @ + 1,
                         !.ev.eofRaised = TRUE])}
\* chunk == b'' on the first pass: eof_received() is called and, in the
\* finally clause, close(); if eof_received raised, the exception then
\* reaches the outer handler (abort).
EofReceived(t) ==
    {[t EXCEPT !.eofs = @ + 1, !.ev.eofCalls = @ + 1,
               !.state = "closed", !.ev.closes = @ + 1],
     AbortRead([t EXCEPT !.eofs = @ + 1, !.ev.eofCalls = @ + 1,
                         !.ev.eofRaised = TRUE, !.ev.closes = @ + 1])}

RECURSIVE ReadLoop(_, _, _)
\* _read_ready's loop: every way it can end.  Each sock.recv returns a
\* non-empty chunk (at most `recvs` times), or b'', or raises EWOULDBLOCK, or
\* raises another error.  Chunks are numbered in the order they arrive.
ReadLoop(t, passes, recvs) ==
    \* EWOULDBLOCK: return
    {Received(t, "wouldblock")}
    \cup
    \* another socket.error: abort(exc)
    {AbortRead(Received(t, "error"))}
    \cup
    \* chunk == b'': the loop ends
    (IF passes = 0
     THEN EofReceived(Received(t, "empty"))
     ELSE {Received(t, "empty")})
    \cup
    \* a non-empty chunk: buffered while reading is paused, else passed to
    \* protocol.data_received, which returns or raises (abort(exc))
    (IF recvs = 0 \/ Len(t.arrived) >= MaxChunks
     THEN {}
     ELSE LET chunk == Len(t.arrived) + 1
              got == [Received(t, "chunk") EXCEPT !.arrived = Append(@, chunk)]
          IN  IF t.paused
              THEN UNION {ReadLoop(nx, passes + 1, recvs - 1) :
                            nx \in {[got EXCEPT !.buffer = Append(@, chunk)]}}
              ELSE {AbortRead([got EXCEPT !.delivered = Append(@, chunk),
                                          !.ev.raised = TRUE])}
                   \cup UNION {ReadLoop(nx, passes + 1, recvs - 1) :
                                 nx \in {[got EXCEPT
                                            !.delivered = Append(@, chunk)]}})

\* The event loop finds the socket readable and calls _read_ready.
ReadReady ==
    /\ rstate = "open"
    /\ \E u \in ReadLoop([ReadSide EXCEPT !.ev = NoRead], 0, MaxRecvs) :
         /\ read_buffer' = u.buffer
         /\ delivered' = u.delivered
         /\ arrived' = u.arrived
         /\ rstate' = u.state
         /\ eofs' = u.eofs
         /\ lastRead' = u.ev
    /\ UNCHANGED <<paused_reading, resumeRaised>>
    /\ UNCHANGED notRead

\* pause()
Pause ==
    /\ paused_reading' = TRUE
    /\ resumeRaised' = FALSE
    /\ UNCHANGED <<read_buffer, delivered, arrived, rstate, eofs, lastRead>>
    /\ UNCHANGED notRead

\* resume(): what has been passed to the protocol after it.  The loop body,
\* self._data_received(chunk), names `chunk`, which resume() does not bind
\* (its loop variable is `data`): the first iteration raises NameError and
\* nothing is passed on.
ResumeDelivered(passed, buffer) == passed

\* resume(): whether it raises.
ResumeRaises(buffer) == buffer # <<>>

\* resume()
Resume ==
    /\ IF paused_reading
       THEN /\ paused_reading' = FALSE
            /\ read_buffer' = <<>>
            /\ delivered' = ResumeDelivered(delivered, read_buffer)
            /\ resumeRaised' = ResumeRaises(read_buffer)
       ELSE /\ resumeRaised' = FALSE
            /\ UNCHANGED <<paused_reading, read_buffer, delivered>>
    /\ UNCHANGED <<arrived, rstate, eofs, lastRead>>
    /\ UNCHANGED notRead

InitRead ==
    /\ pending = [c \in Conns |-> <<>>] /\ reqs = <<>> /\ fut = <<>>
    /\ out = [c \in Conns |-> <<>>] /\ answered = [c \in Conns |-> {}]
    /\ inb = [c \in Conns |-> <<>>] /\ relays = <<>>
    /\ lost = [c \in Conns |-> FALSE] /\ abandoned = [c \in Conns |-> {}]
    /\ peerCmds = 0
    /\ dispatches = <<>>
    /\ write_buffer = <<>> /\ paused_writing = FALSE /\ writer = NoWriter
    /\ closed = FALSE /\ wire = <<>> /\ submitted = <<>> /\ held = <<>>
    /\ lastWrite = [data |-> <<>>, enq |-> <<>>]
    /\ read_buffer = <<>>
    /\ paused_reading = FALSE
    /\ delivered = <<>>
    /\ arrived = <<>>
    /\ rstate = "open"
    /\ eofs = 0
    /\ resumeRaised = FALSE /\ lastRead = NoRead
    /\ dial = DialIdle
    /\ client = ClientIdle
    /\ serve = ServeIdle
    /\ acc = AcceptIdle
    /\ socks = SocksIdle

NextRead ==
    \/ ReadReady
    \/ Pause
    \/ Resume

SpecRead == InitRead /\ [][NextRead]_vars


\* ------------------------------------------------------ create_connection

\* The error numbers a failing socket call reports.
Errnos == {"ECONNREFUSED", "EADDRINUSE"}

\* str(exc): the text of a collected failure.  It tells the call that failed,
\* the error number and, for a bind, the local address; it does not tell the
\* candidate (`cand` is kept by the model only).
Str(exc) == [what |-> exc.what, errno |-> exc.errno, laddr |-> exc.laddr]

\* socket_factory(...) raising socket.error for candidate c.
SocketError(errno, c) ==
    [what |-> "socket", errno |-> errno, laddr |-> 0, cand |-> c]

\* The socket.error built for a failed sock.bind(laddr).
BindError(errno, laddr, c) ==
    [what |-> "bind", errno |-> errno, laddr |-> laddr, cand |-> c]

\* The socket.error that `yield event_loop.sock_connect(sock, address)`
\* raises in the coroutine when the connect failed.
ConnectError(errno, c) ==
    [what |-> "connect", errno |-> errno, laddr |-> 0, cand |-> c]

RECURSIVE BindLoop(_, _, _)
\* The loop over laddr_infos for candidate c, from local address k on: every
\* way it can go, as the failures it appends and whether a bind succeeded.
BindLoop(c, k, L) ==
    IF k > L
    THEN {[excs |-> <<>>, bound |-> FALSE]}
    ELSE {[excs |-> <<>>, bound |-> TRUE]}
         \cup { [excs |-> <<BindError(e, k, c)>> \o r.excs, bound |-> r.bound] :
                  e \in Errnos, r \in BindLoop(c, k + 1, L) }

\* `any` in place of `all`.
SomeSameStr(excs) ==
    \E i \in 2..Len(excs) : Str(excs[i]) = Str(excs[1])

\* all(str(exc) == model for exc in exceptions)
AllSameStr(excs) ==
    \A i \in 1..Len(excs) : Str(excs[i]) = Str(excs[1])

\* The for loop's else clause: what is raised once every candidate failed.
SurfacedError(excs) ==
    IF Len(excs) = 0
    THEN [what |-> "IndexError"]
    ELSE IF Len(excs) = 1
    THEN excs[1]
    ELSE IF AllSameStr(excs)
    THEN excs[1]
    ELSE [what |-> "multiple", texts |-> [i \in 1..Len(excs) |-> Str(excs[i])]]

\* Candidate d.idx + 1 failed with `excs`: go on with the next candidate, or
\* raise when it was the last.
CandidateFailed(d, excs) ==
    LET all == d.exceptions \o excs
        idx == d.idx + 1
    IN  IF idx < d.cands
        THEN [d EXCEPT !.idx = idx, !.exceptions = all]
        ELSE [d EXCEPT !.idx = idx, !.exceptions = all, !.state = "raised",
                       !.raised = SurfacedError(all)]

\* create_connection(host, port, ..., local_addr) is called and the
\* getaddrinfo results are in: n candidates, and with local_addr l local
\* addresses.
CreateConnection ==
    /\ dial.state = "idle"
    /\ \E n \in 0..MaxCands, local \in BOOLEAN, l \in 0..MaxLaddrs :
         /\ ~local => l = 0
         /\ LET d == [DialIdle EXCEPT !.cands = n, !.local = local,
                                      !.laddrs = l]
            IN  dial' =
                  IF local /\ l = 0
                  THEN [d EXCEPT !.state = "raised",
                                 !.raised = [what |-> "empty getaddrinfo"]]
                  ELSE IF n = 0
                  THEN [d EXCEPT !.state = "raised",
                                 !.raised = SurfacedError(<<>>)]
                  ELSE [d EXCEPT !.state = "trying"]
    /\ UNCHANGED notDial

\* socket_factory raises socket.error for the next candidate.
SocketFails ==
    /\ dial.state = "trying"
    /\ \E e \in Errnos :
         dial' = CandidateFailed(dial, <<SocketError(e, dial.idx + 1)>>)
    /\ UNCHANGED notDial

\* Every bind of the next candidate's socket fails: the socket is closed and
\* the loop continues.
BindsFail ==
    /\ dial.state = "trying"
    /\ dial.local
    /\ \E r \in BindLoop(dial.idx + 1, 1, dial.laddrs) :
         /\ ~r.bound
         /\ dial' = CandidateFailed(dial, r.excs)
    /\ UNCHANGED notDial

\* The next candidate's socket is made (and bound, with local_addr) and the
\* connect fails.
ConnectFails ==
    /\ dial.state = "trying"
    /\ \E r \in (IF dial.local THEN BindLoop(dial.idx + 1, 1, dial.laddrs)
                 ELSE {[excs |-> <<>>, bound |-> TRUE]}), e \in Errnos :
         /\ r.bound
         /\ dial' = CandidateFailed(dial, r.excs
                                          \o <<ConnectError(e, dial.idx + 1)>>)
    /\ UNCHANGED notDial

\* The next candidate's socket is made (and bound) and the connect succeeds:
\* break.
Connects ==
    /\ dial.state = "trying"
    /\ \E r \in (IF dial.local THEN BindLoop(dial.idx + 1, 1, dial.laddrs)
                 ELSE {[excs |-> <<>>, bound |-> TRUE]}) :
         /\ r.bound
         /\ dial' = [dial EXCEPT !.idx = @ + 1,
                                 !.exceptions = @ \o r.excs,
                                 !.state = "connected"]
    /\ UNCHANGED notDial

InitDial ==
    /\ pending = [c \in Conns |-> <<>>] /\ reqs = <<>> /\ fut = <<>>
    /\ out = [c \in Conns |-> <<>>] /\ answered = [c \in Conns |-> {}]
    /\ inb = [c \in Conns |-> <<>>] /\ relays = <<>>
    /\ lost = [c \in Conns |-> FALSE] /\ abandoned = [c \in Conns |-> {}]
    /\ peerCmds = 0
    /\ dispatches = <<>>
    /\ write_buffer = <<>> /\ paused_writing = FALSE /\ writer = NoWriter
    /\ closed = FALSE /\ wire = <<>> /\ submitted = <<>> /\ held = <<>>
    /\ lastWrite = [data |-> <<>>, enq |-> <<>>]
    /\ read_buffer = <<>> /\ paused_reading = FALSE /\ delivered = <<>>
    /\ arrived = <<>> /\ rstate = "open" /\ eofs = 0 /\ resumeRaised = FALSE /\ lastRead = NoRead
    /\ dial = DialIdle
    /\ client = ClientIdle
    /\ serve = ServeIdle
    /\ acc = AcceptIdle
    /\ socks = SocksIdle

NextDial ==
    \/ CreateConnection
    \/ SocketFails
    \/ BindsFail
    \/ ConnectFails
    \/ Connects

SpecDial == InitDial /\ [][NextDial]_vars


\* ------------------------------------------------------------ MailboxClient

\* The kinds of address a MailboxClient is built with: a (host, port) tuple
\* or anything else.
Addresses == {"tuple", "path"}

\* The names MailboxClient.request can read: its parameters and self, and the
\* names of the module (the imports, LOGGER, CommandRequest and the classes
\* and functions the module defines).  The event loop is kept as self._loop.
RequestNames ==
    {"self", "command", "sender", "target", "args", "kwargs", "sys", "logging",
     "namedtuple", "ProtocolError", "CommandError", "pickle", "nice_address",
     "FrameParser", "gen_unique_id", "asyncio", "get_actor", "Failure",
     "Deferred", "coroutine_return", "in_loop", "actorid", "get_proxy",
     "get_command", "ActorProxy", "Protocol", "BaseClient", "LOGGER",
     "CommandRequest", "command_in_context", "ProxyMailbox", "Message",
     "MailboxProtocol", "MailboxClient"}

\* MailboxClient.request while self._connection is None: the client after the
\* call went as far as it can without another event.  With a tuple address
\* the call evaluates `loop.create_connection`, and raises NameError when
\* `loop` is not a name it can read; else create_connection is performed and
\* the call suspends in it.  With another address it raises
\* NotImplementedError.
RequestConnecting(cl, command, target) ==
    IF cl.address = "tuple"
    THEN IF "loop" \in RequestNames
         THEN [cl EXCEPT !.dials = @ + 1,
                         !.calls = Append(@, [command |-> command,
                                              target |-> target,
                                              st |-> "connecting",
                                              error |-> "", conn |-> 0])]
         ELSE [cl EXCEPT !.calls = Append(@, [command |-> command,
                                              target |-> target,
                                              st |-> "raised",
                                              error |-> "NameError",
                                              conn |-> 0])]
    ELSE [cl EXCEPT !.calls = Append(@, [command |-> command,
                                         target |-> target,
                                         st |-> "raised",
                                         error |-> "NotImplementedError",
                                         conn |-> 0])]

\* MailboxClient.request with a connection: Message.command, then
\* self._connection._start(req), then the call waits for req.future.
RequestRegistered(cl, command, target) ==
    [cl EXCEPT !.calls = Append(@, [command |-> command, target |-> target,
                                    st |-> "registered", error |-> "",
                                    conn |-> cl.connection])]

\* An actor calls request() on its MailboxClient.
ClientRequest ==
    /\ Len(client.calls) < MaxCalls
    /\ \E command \in Commands, target \in Conns \cup {Arbiter} :
         client' = IF client.connection = 0
                   THEN RequestConnecting(client, command, target)
                   ELSE RequestRegistered(client, command, target)
    /\ UNCHANGED notClient

InitClient ==
    /\ pending = [c \in Conns |-> <<>>] /\ reqs = <<>> /\ fut = <<>>
    /\ out = [c \in Conns |-> <<>>] /\ answered = [c \in Conns |-> {}]
    /\ inb = [c \in Conns |-> <<>>] /\ relays = <<>>
    /\ lost = [c \in Conns |-> FALSE] /\ abandoned = [c \in Conns |-> {}]
    /\ peerCmds = 0
    /\ dispatches = <<>>
    /\ write_buffer = <<>> /\ paused_writing = FALSE /\ writer = NoWriter
    /\ closed = FALSE /\ wire = <<>> /\ submitted = <<>> /\ held = <<>>
    /\ lastWrite = [data |-> <<>>, enq |-> <<>>]
    /\ read_buffer = <<>> /\ paused_reading = FALSE /\ delivered = <<>>
    /\ arrived = <<>> /\ rstate = "open" /\ eofs = 0 /\ resumeRaised = FALSE /\ lastRead = NoRead
    /\ dial = DialIdle
    /\ \E a \in Addresses : client = [ClientIdle EXCEPT !.address = a]
    /\ serve = ServeIdle
    /\ acc = AcceptIdle
    /\ socks = SocksIdle

NextClient ==
    \/ ClientRequest

SpecClient == InitClient /\ [][NextClient]_vars


\* ------------------------------------------------------------ start_serving

Families == {"AF_INET", "AF_INET6"}

RECURSIVE InfoLists(_)
\* The lists getaddrinfo may return, of up to n addresses.
InfoLists(n) ==
    IF n = 0 THEN {<<>>}
    ELSE InfoLists(n - 1)
         \cup {Append(l, f) : l \in {m \in InfoLists(n - 1) : Len(m) = n - 1},
                              f \in Families}

\* A socket made by socket_factory for address k.
NewSocket(k) == [info |-> k, st |-> "created", reader |-> FALSE]

RECURSIVE ServeLoop(_, _, _, _)
\* The loop over infos, from address k on: every way it can go, as the
\* sockets list, `completed`, and the call that raised.  For each address
\* the socket is made and appended to sockets; SO_REUSEADDR is set with
\* reuse_address; IPV6_V6ONLY is set for an AF_INET6 address; the socket is
\* bound.
ServeLoop(infos, k, sockets, reuse) ==
    IF k > Len(infos)
    THEN {[sockets |-> sockets, completed |-> TRUE, error |-> "none"]}
    ELSE LET made == Append(sockets, NewSocket(k))
             bound == [made EXCEPT ![Len(made)].st = "bound"]
         IN  {[sockets |-> sockets, completed |-> FALSE, error |-> "socket"]}
             \cup (IF reuse
                   THEN {[sockets |-> made, completed |-> FALSE,
                          error |-> "setsockopt"]}
                   ELSE {})
             \cup (IF infos[k] = "AF_INET6"
                   THEN {[sockets |-> made, completed |-> FALSE,
                          error |-> "setsockopt"]}
                   ELSE {})
             \cup {[sockets |-> made, completed |-> FALSE, error |-> "bind"]}
             \cup UNION {ServeLoop(infos, k + 1, b, reuse) : b \in {bound}}

\* Only the sockets made before the one whose call raised are closed.
ClosePrevious(sockets) ==
    [i \in DOMAIN sockets |->
        IF i < Len(sockets) THEN [sockets[i] EXCEPT !.st = "closed"]
        ELSE sockets[i]]

\* finally, not completed: for sock in sockets: sock.close()
CloseAll(sockets) ==
    [i \in DOMAIN sockets |-> [sockets[i] EXCEPT !.st = "closed"]]

RECURSIVE ListenLoop(_, _)
\* The last loop, from socket j on: listen, setblocking, add_reader for each
\* socket; every way it can go (sock.listen may raise).
ListenLoop(sockets, j) ==
    IF j > Len(sockets)
    THEN {[sockets |-> sockets, error |-> "none"]}
    ELSE {[sockets |-> sockets, error |-> "listen"]}
         \cup UNION {ListenLoop(l, j + 1) :
                       l \in {[sockets EXCEPT ![j].st = "listening",
                                              ![j].reader = TRUE]}}

\* start_serving from the list of sockets on: the listen loop, then the
\* sockets are yielded.
ServeListen(sv, sockets) ==
    {[sv EXCEPT !.sockets = o.sockets, !.error = o.error,
                !.state = IF o.error = "none" THEN "serving" ELSE "raised"]
       : o \in ListenLoop(sockets, 1)}

\* start_serving is called: with host or port and a sock, or with neither,
\* it raises ValueError; with a sock alone it serves on it; with host or port
\* it waits for getaddrinfo.
StartServing ==
    /\ serve.state = "idle"
    /\ \E hostport \in BOOLEAN, sock \in BOOLEAN, reuse \in BOOLEAN :
         LET sv == [serve EXCEPT !.reuse = reuse]
         IN  IF hostport
             THEN /\ sock => ~reuse
                  /\ serve' = IF sock
                              THEN [sv EXCEPT !.state = "raised",
                                              !.error = "ValueError"]
                              ELSE [sv EXCEPT !.state = "resolving"]
             ELSE /\ ~reuse
                  /\ IF sock
                     THEN serve' \in ServeListen(sv, <<[info |-> 0,
                                                        st |-> "bound",
                                                        reader |-> FALSE]>>)
                     ELSE serve' = [sv EXCEPT !.state = "raised",
                                              !.error = "ValueError"]
    /\ UNCHANGED notServe

\* getaddrinfo returns: an empty list raises; else the sockets are made and
\* bound, all of them closed if a call raises, and then set to listen.
ServeResolved ==
    /\ serve.state = "resolving"
    /\ \E infos \in InfoLists(MaxInfos) :
         IF infos = <<>>
         THEN serve' = [serve EXCEPT !.state = "raised",
                                     !.error = "empty getaddrinfo"]
         ELSE \E o \in ServeLoop(infos, 1, <<>>, serve.reuse) :
                LET sv == [serve EXCEPT !.infos = infos]
                IN  IF o.completed
                    THEN serve' \in ServeListen(sv, o.sockets)
                    ELSE serve' = [sv EXCEPT !.state = "raised",
                                             !.error = o.error,
                                             !.sockets = CloseAll(o.sockets)]
    /\ UNCHANGED notServe

InitServe ==
    /\ pending = [c \in Conns |-> <<>>] /\ reqs = <<>> /\ fut = <<>>
    /\ out = [c \in Conns |-> <<>>] /\ answered = [c \in Conns |-> {}]
    /\ inb = [c \in Conns |-> <<>>] /\ relays = <<>>
    /\ lost = [c \in Conns |-> FALSE] /\ abandoned = [c \in Conns |-> {}]
    /\ peerCmds = 0
    /\ dispatches = <<>>
    /\ write_buffer = <<>> /\ paused_writing = FALSE /\ writer = NoWriter
    /\ closed = FALSE /\ wire = <<>> /\ submitted = <<>> /\ held = <<>>
    /\ lastWrite = [data |-> <<>>, enq |-> <<>>]
    /\ read_buffer = <<>> /\ paused_reading = FALSE /\ delivered = <<>>
    /\ arrived = <<>> /\ rstate = "open" /\ eofs = 0 /\ resumeRaised = FALSE /\ lastRead = NoRead
    /\ dial = DialIdle
    /\ client = ClientIdle
    /\ serve = ServeIdle
    /\ acc = AcceptIdle
    /\ socks = SocksIdle

NextServe ==
    \/ StartServing
    \/ ServeResolved

SpecServe == InitServe /\ [][NextServe]_vars


\* --------------------------------------------------- sock_accept_connection

\* One instance serves every connection.
SharedProtocol(n) == 1

\* protocol_factory(), n instances made so far: MailboxProtocol(...) makes a
\* new instance, whose __init__ gives it a new, empty _pending_responses.
ProtocolFactory(n) == n + 1

\* sock.accept() returned a connection: protocol_factory() is called.
AcceptProtocol(a) ==
    LET p == ProtocolFactory(a.protocols)
    IN  [a EXCEPT !.protocols = @ + 1,
                  !.tables = IF p > Len(a.tables) THEN Append(@, <<>>) ELSE @]

\* ... and a transport is made for the connection and that protocol.
AcceptTransport(a) ==
    [AcceptProtocol(a) EXCEPT
        !.conns = Append(@, [protocol |-> ProtocolFactory(a.protocols)]),
        !.live = Append(@, {}),
        !.batch.transports = @ + 1]

\* sock.accept() has returned or raised.
Accepted(a, outcome) == [a EXCEPT !.batch.outcomes = Append(@, outcome)]

\* event_loop.logger writes a line.
Logged(a, level) == [a EXCEPT !.batch.logged = Append(@, level)]

UncaughtError(a) == [a EXCEPT !.batch.raised = TRUE, !.listening = FALSE]
\* An exception reaches the outer handler of sock_accept_connection: it is
\* logged and the call returns.
OuterHandler(a) == Logged(a, "exception")

RECURSIVE AcceptLoop(_, _)
\* The loop of sock_accept_connection with i iterations to go: every way it
\* can end.  sock.accept() raises a TRY_READ_AGAIN error (break), an
\* ACCEPT_ERRORS error (logged, break) or another error (outer handler);
\* raises EPERM (continue); or returns a connection, and then
\* protocol_factory() and the transport's constructor return, or the
\* constructor raises (outer handler).
AcceptLoop(a, i) ==
    IF i = 0
    THEN {a}
    ELSE {Accepted(a, "wouldblock"),
          Logged(Accepted(a, "transient"), "info"),
          OuterHandler(Accepted(a, "other"))}
         \cup UNION {AcceptLoop(b, i - 1) : b \in {Accepted(a, "eperm")}}
         \cup (IF a.protocols >= MaxAccepted
               THEN {}
               ELSE {OuterHandler(AcceptProtocol(Accepted(a, "conn")))}
                    \cup UNION {AcceptLoop(b, i - 1) :
                                  b \in {AcceptTransport(Accepted(a, "conn"))}})

\* The event loop finds the listening socket readable and calls
\* sock_accept_connection.
AcceptReady ==
    /\ acc.listening
    /\ acc' \in AcceptLoop([acc EXCEPT !.batch = NoBatch], NUMBER_ACCEPTS)
    /\ UNCHANGED notAccept

\* A request is sent on accepted connection k (MailboxProtocol.request on the
\* protocol of its transport).
AcceptedRequest(k) ==
    /\ acc.reqs < MaxAccReqs
    /\ \E command \in Commands, id \in GenUniqueId(acc.reqs + 1) :
         LET msg == MessageCommand(command, Arbiter, "A", id)
             p == acc.conns[k].protocol
         IN  acc' = [acc EXCEPT
                        !.reqs = @ + 1,
                        !.tables[p] = StartTable(@, msg, acc.reqs + 1),
                        !.live[k] = IF msg.future
                                    THEN @ \cup {msg.data.ack} ELSE @]
    /\ UNCHANGED notAccept

\* A callback envelope arrives on accepted connection k for a token pending
\* in the table of its protocol.
AcceptedCallback(k) ==
    /\ LET p == acc.conns[k].protocol
       IN  \E ack \in DOMAIN acc.tables[p] :
             acc' = [acc EXCEPT !.tables[p] = Pop(@, ack),
                                !.live[k] = @ \ {ack},
                                !.resolved = @ \cup {acc.tables[p][ack]}]
    /\ UNCHANGED notAccept

InitAccept ==
    /\ pending = [c \in Conns |-> <<>>] /\ reqs = <<>> /\ fut = <<>>
    /\ out = [c \in Conns |-> <<>>] /\ answered = [c \in Conns |-> {}]
    /\ inb = [c \in Conns |-> <<>>] /\ relays = <<>>
    /\ lost = [c \in Conns |-> FALSE] /\ abandoned = [c \in Conns |-> {}]
    /\ peerCmds = 0
    /\ dispatches = <<>>
    /\ write_buffer = <<>> /\ paused_writing = FALSE /\ writer = NoWriter
    /\ closed = FALSE /\ wire = <<>> /\ submitted = <<>> /\ held = <<>>
    /\ lastWrite = [data |-> <<>>, enq |-> <<>>]
    /\ read_buffer = <<>> /\ paused_reading = FALSE /\ delivered = <<>>
    /\ arrived = <<>> /\ rstate = "open" /\ eofs = 0 /\ resumeRaised = FALSE /\ lastRead = NoRead
    /\ dial = DialIdle
    /\ client = ClientIdle
    /\ serve = ServeIdle
    /\ acc = AcceptIdle
    /\ socks = SocksIdle

NextAccept ==
    \/ AcceptReady
    \/ \E k \in 1..Len(acc.conns) : AcceptedRequest(k)
    \/ \E k \in 1..Len(acc.conns) : AcceptedCallback(k)

SpecAccept == InitAccept /\ [][NextAccept]_vars


\* ------------------------------------------------------- mailbox: claims

\* The request a step has just built (Message.command followed by _start).
NewRequest == reqs'[Len(reqs')]
IssuesRequest == Len(reqs') = Len(reqs) + 1

\* The positions of out[c] that hold a callback envelope emitted by relay k.
RelayCallbacks(c, k) ==
    {i \in 1..Len(out[c]) : out[c][i].command = "callback" /\ out[c][i].tag = k}

\* C1: a future resolved by a callback envelope was resolved by an envelope
\* whose ack is the request's own token and whose result is the result of
\* that very request, never the result that answers another request.
C1_ResolvedByOwnCallback ==
    \A r \in DOMAIN fut :
        fut[r].by = "callback" =>
            /\ fut[r].ack = reqs[r].ack
            /\ fut[r].val = ValueOf(r)

\* C2: the token of a request that _start registers differs from every key
\* of the connection's correlation table at that moment.
C2_FreshToken ==
    [][IssuesRequest /\ NewRequest.acked =>
          NewRequest.ack \notin DOMAIN pending[NewRequest.conn]]_vars

\* C3: a step that sends a request without ack leaves the correlation table
\* of its connection as it was, whether the write succeeded or raised.
C3_UnackedKeepsTable ==
    [][IssuesRequest /\ ~NewRequest.acked =>
          pending'[NewRequest.conn] = pending[NewRequest.conn]]_vars

\* C3 witness: an unacked request whose write raised out of _start, sent on a
\* connection whose table holds an entry.
C3_Witness ==
    \E r \in DOMAIN reqs :
        /\ ~reqs[r].acked
        /\ reqs[r].raised
        /\ DOMAIN pending[reqs[r].conn] # {}

C10_AbandonedNeverResolved ==
    \A c \in Conns : \A r \in abandoned[c] :
        /\ fut[r].st = "pending"
        /\ \A k \in DOMAIN relays :
             relays[k].req = r =>
                /\ relays[k].st = "waiting"
                /\ RelayCallbacks(relays[k].from, k) = {}

\* C10 witness: the connection to the target was lost while a relayed request
\* was pending on it, and the target's answer was already on its way.
C10_Witness ==
    \E c \in Conns : \E r \in abandoned[c] :
        /\ lost[c]
        /\ \E k \in DOMAIN relays : relays[k].req = r
        /\ \E i \in answered[c] : out[c][i].tag = r

\* The dispatches of command envelopes taken up on connection c.
CommandDispatches(c) ==
    {i \in Dispatched(c) : dispatches[i].command \in Commands}

C15_FailedWriteResolves ==
    \A r \in DOMAIN reqs :
        reqs[r].acked /\ ~reqs[r].wrote =>
            /\ fut[r].st = "called"
            /\ fut[r].by = "writefail"
            /\ fut[r].val = Failure

\* C16: _start stores the future under the token before it writes the frame,
\* so the callback envelope the remote actor sends in answer to an acked
\* request, carrying that request's token, finds an entry under the token
\* when it is dispatched: the dispatch raises nothing.
C16_AnswerFindsEntry ==
    \A i \in DOMAIN dispatches :
        LET d == dispatches[i]
        IN  /\ d.command = "callback"
            /\ d.tag # 0
            /\ reqs[d.tag].acked
            /\ reqs[d.tag].wrote
            /\ d.ack = reqs[d.tag].ack
            => d.raised = "none"

\* C17: the dispatch of a callback envelope that carries no token, or a token
\* the correlation table does not hold, raises the protocol error and
\* nothing else, and the connection goes on taking up frames after it.
C17_OrphanCallbackIsProtocolError ==
    \A i \in DOMAIN dispatches :
        LET d == dispatches[i]
        IN  d.command = "callback" /\ d.raised # "none" =>
                /\ d.raised = "ProtocolError"
                /\ ~d.crashed

\* The step takes up a frame; the record of its dispatch.
TakesUp == Len(dispatches') = Len(dispatches) + 1
NewDispatch == dispatches'[Len(dispatches')]

\* C18: the step that dispatches a command envelope whose target cannot be
\* resolved, or whose target is a proxy while its sender cannot be resolved,
\* issues no request and starts no relay, writes nothing on any other
\* connection, does not call the command's handler, and ends with a failure
\* result.
C18_UnresolvedNeverRelayed ==
    [][TakesUp /\ NewDispatch.command \in Commands
         /\ \/ GetActor(NewDispatch.target) = "none"
            \/ /\ GetActor(NewDispatch.target) = "proxy"
               /\ GetActor(NewDispatch.sender) = "none"
       => /\ reqs' = reqs
          /\ relays' = relays
          /\ pending' = pending
          /\ \A c \in Conns \ {NewDispatch.conn} : out'[c] = out[c]
          /\ NewDispatch.relay = 0
          /\ ~NewDispatch.executed
          /\ NewDispatch.failed]_vars

\* C18 witness: a command for a proxy from an unknown sender and a command
\* for an unknown target have both been dispatched, and no request exists.
C18_Witness ==
    /\ \E i \in DOMAIN dispatches :
          /\ dispatches[i].command \in Commands
          /\ GetActor(dispatches[i].target) = "proxy"
          /\ GetActor(dispatches[i].sender) = "none"
          /\ dispatches[i].failed
    /\ \E i \in DOMAIN dispatches :
          /\ dispatches[i].command \in Commands
          /\ GetActor(dispatches[i].target) = "none"
          /\ dispatches[i].failed
    /\ reqs = <<>>

\* C19: on every connection the frames are taken up in the order they
\* arrived, none skipped; taking up a frame whose body does not unpickle
\* raises the protocol error and aborts the connection: it is the last frame
\* taken up on it, and the frames that arrived behind it are dropped.
C19_UndecodableAbortsConnection ==
    \A c \in Conns :
        /\ \A i, j \in Dispatched(c) :
              i < j => dispatches[i].seq < dispatches[j].seq
        /\ {dispatches[i].seq : i \in Dispatched(c)}
              = 1..Cardinality(Dispatched(c))
        /\ \A i \in Dispatched(c) :
              dispatches[i].command = "undecodable" =>
                  /\ dispatches[i].raised = "ProtocolError"
                  /\ dispatches[i].crashed
                  /\ lost[c]
                  /\ inb[c] = <<>>
                  /\ \A j \in Dispatched(c) : j <= i

\* C19 witness: an undecodable frame was taken up while another frame was
\* waiting behind it on the connection.
C19_Witness ==
    \E i \in DOMAIN dispatches :
        /\ dispatches[i].command = "undecodable"
        /\ dispatches[i].behind > 0
        /\ lost[dispatches[i].conn]

\* C24: every future a correlation table holds is pending: the entry of a
\* future is gone once the future has been called.
C24_TableHoldsOnlyPending ==
    \A c \in Conns :
        \A k \in DOMAIN pending[c] : fut[pending[c][k]].st = "pending"

\* ---------------------------------------------- transport, write: claims

Range(seq) == {seq[i] : i \in DOMAIN seq}
IsSuffix(a, b) ==
    Len(a) <= Len(b) /\ SubSeq(b, Len(b) - Len(a) + 1, Len(b)) = a

C6_SentIsPrefixOfWritten ==
    /\ IsPrefix(wire, submitted)
    /\ ~closed => wire \o Flatten(write_buffer) = submitted
    /\ \A i \in DOMAIN write_buffer : write_buffer[i] # <<>>

\* C6 witness: one chunk of two bytes was written and sock.send accepted its
\* first byte only; the second byte alone is the head of the queue.
C6_Witness ==
    /\ lastWrite.enq = << <<1, 2>> >>
    /\ wire = <<1>>
    /\ write_buffer = << <<2>> >>
    /\ writer = "_ready_write"

\* C7: the chunks write(data) enqueues are non-empty, at most
\* WRITE_BUFFER_MAX_SIZE long, and their concatenation in queue order is data;
\* data longer than WRITE_BUFFER_MAX_SIZE is split in several chunks; no chunk
\* of the queue exceeds WRITE_BUFFER_MAX_SIZE; and while writing is paused
\* the chunks of the last write() are the end of the queue.
C7_WriteSplitsInBoundedChunks ==
    /\ Flatten(lastWrite.enq) = lastWrite.data
    /\ lastWrite.data # <<>> =>
         \A i \in DOMAIN lastWrite.enq :
            /\ Len(lastWrite.enq[i]) >= 1
            /\ Len(lastWrite.enq[i]) <= WRITE_BUFFER_MAX_SIZE
    /\ Len(lastWrite.data) > WRITE_BUFFER_MAX_SIZE => Len(lastWrite.enq) > 1
    /\ \A i \in DOMAIN write_buffer : Len(write_buffer[i]) <= WRITE_BUFFER_MAX_SIZE
    /\ (paused_writing /\ lastWrite.data # <<>> /\ IsSuffix(lastWrite.data, held)) =>
         IsSuffix(lastWrite.enq, write_buffer)

\* C7 witness: a write() of more than WRITE_BUFFER_MAX_SIZE bytes, not a
\* multiple of it, made while writing was paused.
C7_Witness ==
    /\ paused_writing
    /\ Len(lastWrite.data) > WRITE_BUFFER_MAX_SIZE
    /\ Len(lastWrite.data) % WRITE_BUFFER_MAX_SIZE # 0
    /\ Len(lastWrite.enq) > 1
    /\ IsSuffix(lastWrite.enq, write_buffer)

\* C22: on an open transport a writability callback is registered exactly
\* while the write buffer holds data and writing is not paused; and, the
\* socket becoming writable again and again, every byte write() was given is
\* sent, unless writing is paused or the transport closed first.
C22_QueuedChunksDrain ==
    /\ [](~closed =>
            (writer # NoWriter <=> write_buffer # <<>> /\ ~paused_writing))
    /\ \A n \in 1..MaxBytes :
          (Len(submitted) >= n /\ ~paused_writing /\ ~closed)
              ~> (Len(wire) >= n \/ paused_writing \/ closed)

\* C22 witness: a send attempt of write() took part of the data and left the
\* rest in the buffer, and _ready_write is registered for writability.
C22_Witness ==
    /\ ~closed
    /\ ~paused_writing
    /\ wire # <<>>
    /\ write_buffer # <<>>
    /\ writer = "_ready_write"

\* ----------------------------------------------- transport, read: claims

\* C5: every chunk that arrived has been passed to the protocol or is in the
\* read buffer, in arrival order and once; the buffer is used only while
\* reading is paused, so that after resume() every chunk that arrived while
\* paused has been passed to the protocol.
C5_BufferedChunksReplayed ==
    /\ delivered \o read_buffer = arrived
    /\ ~paused_reading => read_buffer = <<>>

\* C20: a call of _read_ready receives until sock.recv raises EWOULDBLOCK or
\* returns b'', unless an exception aborts the transport first: a socket
\* error other than EWOULDBLOCK does.  If the first sock.recv of the call
\* returned b'', eof_received was called once, by this call and in the whole
\* life of the transport, and close() was called, also when eof_received
\* raised.
C20_ReadUntilBlockOrEof ==
    lastRead.recvs > 0 =>
        /\ lastRead.last \in {"wouldblock", "empty"}
             \/ (rstate = "aborted" /\ lastRead.aborts = 1)
        /\ lastRead.last = "chunk" => lastRead.raised
        /\ lastRead.last = "error" => rstate = "aborted" /\ lastRead.aborts = 1
        /\ lastRead.first = "empty" =>
              /\ lastRead.recvs = 1
              /\ lastRead.eofCalls = 1
              /\ eofs = 1
              /\ lastRead.closes = 1
              /\ rstate \in {"closed", "aborted"}
              /\ rstate = "aborted" <=> lastRead.eofRaised

\* C20 witness: chunks had been received by earlier calls; the last call's
\* first sock.recv returned b'', eof_received raised and the transport was
\* closed all the same.
C20_Witness ==
    /\ arrived # <<>>
    /\ lastRead.first = "empty"
    /\ lastRead.eofRaised
    /\ lastRead.closes = 1

\* C25: the call of _read_ready in which sock.recv returned b'' called
\* eof_received and close(), whether b'' was the first thing received in the
\* call or followed chunks; and every chunk that arrived had by then been
\* passed to the protocol or put in the read buffer.
C25_EofInSameEvent ==
    lastRead.last = "empty" =>
        /\ lastRead.eofCalls = 1
        /\ lastRead.closes = 1
        /\ rstate # "open"
        /\ Len(delivered) + Len(read_buffer) >= Len(arrived)

\* ------------------------------------------------- create_connection: claims

\* The texts of the collected failures.
Texts(excs) == {Str(excs[i]) : i \in 1..Len(excs)}

\* C8: when create_connection has tried every one of its N >= 1 candidates
\* and each failed, then, if all collected failures have the same text, the
\* error raised is one of the collected failures; and if their texts differ,
\* the error raised is a combined one that lists the text of every collected
\* failure, in the order collected, so that each of the N candidates has a
\* failure listed.
C8_AllCandidatesFail ==
    (dial.state = "raised" /\ dial.cands >= 1 /\ dial.idx = dial.cands) =>
        LET excs == dial.exceptions
        IN  /\ \A c \in 1..dial.cands : \E i \in 1..Len(excs) : excs[i].cand = c
            /\ IF Cardinality(Texts(excs)) = 1
               THEN \E i \in 1..Len(excs) : dial.raised = excs[i]
               ELSE /\ dial.raised.what = "multiple"
                    /\ Len(dial.raised.texts) = Len(excs)
                    /\ \A i \in 1..Len(excs) :
                         dial.raised.texts[i] = Str(excs[i])

\* Every candidate of several failed and the failures' texts differ, the first
\* text occurring again: the combined error is raised.
C8_Witness ==
    /\ dial.state = "raised"
    /\ dial.cands = MaxCands
    /\ dial.idx = dial.cands
    /\ Cardinality(Texts(dial.exceptions)) > 1
    /\ \E i \in 2..Len(dial.exceptions) :
         Str(dial.exceptions[i]) = Str(dial.exceptions[1])
    /\ dial.raised.what = "multiple"

\* ---------------------------------------------------- MailboxClient: claims

\* C11: a MailboxClient built with a (host, port) address performs
\* create_connection at most once, and every request() call made on it is
\* either suspended in that connection's establishment or has registered its
\* request on the one connection the client holds.
C11_OneSharedConnection ==
    client.address = "tuple" =>
        /\ client.dials <= 1
        /\ \A i \in DOMAIN client.calls :
             \/ client.calls[i].st = "connecting"
             \/ /\ client.calls[i].st = "registered"
                /\ client.connection # 0
                /\ client.calls[i].conn = client.connection

\* ---------------------------------------------------- start_serving: claims

\* C12: when start_serving raised because making a socket, setting an option
\* or binding failed, every socket made in the call is closed, and none of
\* them listens or has a reader registered.
C12_FailedServeClosesSockets ==
    (serve.state = "raised" /\ serve.error \in {"socket", "setsockopt", "bind"}) =>
        \A i \in DOMAIN serve.sockets :
            /\ serve.sockets[i].st = "closed"
            /\ ~serve.sockets[i].reader

\* C12 witness: the bind of the third address failed after two sockets were
\* made and bound; the three sockets are closed.
C12_Witness ==
    /\ serve.state = "raised"
    /\ serve.error = "bind"
    /\ Len(serve.sockets) = 3
    /\ \A i \in DOMAIN serve.sockets : serve.sockets[i].st = "closed"

\* ------------------------------------------------------------- sock_connect

\* Deferred.callback(result): a Deferred takes one result.
FutureCallback(d, result) ==
    [d EXCEPT !.future = IF @ = "pending" THEN result ELSE @,
              !.completions = @ + 1]

\* sock_connect(event_loop, sock, address): the Deferred is made with the
\* canceller and sock.connect(address) returns, raises a TRY_WRITE_AGAIN
\* error (add_writer, return future) or raises another error
\* (future.callback(exc)).
SockConnectCall(d, outcome) ==
    LET made == [d EXCEPT !.first = outcome, !.future = "pending"]
    IN  IF outcome = "wouldblock" THEN [made EXCEPT !.writer = TRUE]
        ELSE IF outcome = "error" THEN FutureCallback(made, "failure")
        ELSE made

CallbackWithoutCheck(d, err) ==
    FutureCallback([d EXCEPT !.writer = FALSE, !.scheduled = FALSE,
                             !.ran = TRUE, !.err = err],
                   IF err = "zero" THEN "success" ELSE "failure")
\* sock_connect(event_loop, sock, address, future), the call made by the
\* event loop: remove_writer, return if the future is cancelled, else read
\* SO_ERROR and call the future back.
SockConnectCallback(d, err) ==
    LET removed == [d EXCEPT !.writer = FALSE, !.scheduled = FALSE, !.ran = TRUE]
    IN  IF d.future = "cancelled"
        THEN removed
        ELSE FutureCallback([removed EXCEPT !.err = err],
                            IF err = "zero" THEN "success" ELSE "failure")

\* canceller(d), called by the future's cancel(): remove_writer.
Canceller(d) == [d EXCEPT !.writer = FALSE]

\* A dial of socket s starts.
SockConnect(s) ==
    /\ socks[s].first = "none"
    /\ \E outcome \in {"ok", "wouldblock", "error"} :
         socks' = [socks EXCEPT ![s] = SockConnectCall(@, outcome)]
    /\ UNCHANGED notConnect

\* The event loop finds socket s writable: the call of its writer is due.
Writable(s) ==
    /\ socks[s].writer
    /\ ~socks[s].scheduled
    /\ socks' = [socks EXCEPT ![s].scheduled = TRUE]
    /\ UNCHANGED notConnect

\* The event loop makes the call that is due.
RunCallback(s) ==
    /\ socks[s].scheduled
    /\ \E err \in {"zero", "nonzero"} :
         socks' = [socks EXCEPT ![s] = SockConnectCallback(@, err)]
    /\ UNCHANGED notConnect

\* The caller cancels the pending future sock_connect returned.
Cancel(s) ==
    /\ socks[s].first = "wouldblock"
    /\ socks[s].future = "pending"
    /\ socks' = [socks EXCEPT ![s] = [Canceller(@) EXCEPT !.future = "cancelled"]]
    /\ UNCHANGED notConnect

InitConnect ==
    /\ pending = [c \in Conns |-> <<>>] /\ reqs = <<>> /\ fut = <<>>
    /\ out = [c \in Conns |-> <<>>] /\ answered = [c \in Conns |-> {}]
    /\ inb = [c \in Conns |-> <<>>] /\ relays = <<>>
    /\ lost = [c \in Conns |-> FALSE] /\ abandoned = [c \in Conns |-> {}]
    /\ peerCmds = 0
    /\ dispatches = <<>>
    /\ write_buffer = <<>> /\ paused_writing = FALSE /\ writer = NoWriter
    /\ closed = FALSE /\ wire = <<>> /\ submitted = <<>> /\ held = <<>>
    /\ lastWrite = [data |-> <<>>, enq |-> <<>>]
    /\ read_buffer = <<>> /\ paused_reading = FALSE /\ delivered = <<>>
    /\ arrived = <<>> /\ rstate = "open" /\ eofs = 0 /\ resumeRaised = FALSE /\ lastRead = NoRead
    /\ dial = DialIdle
    /\ client = ClientIdle
    /\ serve = ServeIdle
    /\ acc = AcceptIdle
    /\ socks = SocksIdle

NextConnect ==
    \/ \E s \in Socks : SockConnect(s)
    \/ \E s \in Socks : Writable(s)
    \/ \E s \in Socks : RunCallback(s)
    \/ \E s \in Socks : Cancel(s)

SpecConnect == InitConnect /\ [][NextConnect]_vars

\* ------------------------------------------- sock_accept_connection: claims

Outcomes(outcome) ==
    {k \in DOMAIN acc.batch.outcomes : acc.batch.outcomes[k] = outcome}

\* C21: one call of sock_accept_connection calls sock.accept() at most
\* NUMBER_ACCEPTS times and makes at most one transport for each connection
\* accept returned; a would-block, a transient or another error is the last
\* call of the batch, the transient one logged at info level and the other
\* one by the outer handler; after EPERM accept is called again unless the
\* batch is used up; no exception leaves the call and the listening socket
\* stays registered.
C21_AcceptBatchBounded ==
    LET b == acc.batch
        n == Len(b.outcomes)
    IN  /\ n <= NUMBER_ACCEPTS
        /\ b.transports <= Cardinality(Outcomes("conn"))
        /\ b.transports <= NUMBER_ACCEPTS
        /\ \A k \in Outcomes("wouldblock") \cup Outcomes("transient")
                    \cup Outcomes("other") : k = n
        /\ \A k \in Outcomes("eperm") : k < NUMBER_ACCEPTS => n > k
        /\ Outcomes("wouldblock") # {} => b.logged = <<>>
        /\ Outcomes("transient") # {} => b.logged = <<"info">>
        /\ Outcomes("other") # {} => b.logged = <<"exception">>
        /\ ~b.raised
        /\ acc.listening

\* C21 witness: the batch was used up by an EPERM followed by an error that
\* is neither would-block nor transient; it was logged.
C21_Witness ==
    /\ Len(acc.batch.outcomes) = NUMBER_ACCEPTS
    /\ acc.batch.outcomes[1] = "eperm"
    /\ acc.batch.outcomes[Len(acc.batch.outcomes)] = "other"
    /\ acc.batch.logged = <<"exception">>
    /\ acc.listening

\* ----------------------------------------------------- sock_connect: claims

\* C23: the future of a dial is called back at most once.  No writer is
\* registered after sock.connect returned or raised an error that is not
\* would-block.  After would-block the writer is registered and the future
\* pending until the callback runs or the future is cancelled.  The callback
\* removes the writer and calls the future back with success if SO_ERROR is
\* zero and with the failure otherwise; a cancelled future has no writer and
\* is never called back, also when the callback runs after the cancel.
C23_DialFutureCalledOnce ==
    \A s \in Socks :
        LET d == socks[s]
        IN  /\ d.completions <= 1
            /\ d.first \in {"ok", "error"} => ~d.writer /\ ~d.scheduled
            /\ d.first = "wouldblock" /\ ~d.ran /\ d.future # "cancelled" =>
                  d.writer /\ d.future = "pending" /\ d.completions = 0
            /\ d.ran => ~d.writer
            /\ d.ran /\ d.future # "cancelled" =>
                  /\ d.completions = 1
                  /\ d.future = IF d.err = "zero" THEN "success" ELSE "failure"
            /\ d.future = "cancelled" => ~d.writer /\ d.completions = 0

\* C23 witness: one dial was cancelled while the call of its writer was due,
\* and the call was made afterwards; another dial's callback read a non-zero
\* SO_ERROR.
C23_Witness ==
    /\ \E s \in Socks :
          socks[s].future = "cancelled" /\ socks[s].ran
    /\ \E s \in Socks :
          socks[s].future = "failure" /\ socks[s].err = "nonzero"

====
